---- MODULE Spec2Model ----
(***************************************************************************)
(* Model of the interactive session of llm-cli (src/main.go,               *)
(* runInteractiveMode).  Strings are sequences of one-character strings so *)
(* that strings.ToLower, strings.HasPrefix, strings.TrimPrefix,            *)
(* strings.Join and fmt.Sprintf are computed, not assumed.                 *)
(***************************************************************************)
EXTENDS Integers, Sequences, FiniteSets, TLC

VARIABLES
    main,         \* the locals of main(): config, flags, credential, exit status
    messages,     \* []openai.ChatCompletionMessage, the Transcript
    contextFile,  \* string, "" when no file was loaded
    isMultiline,  \* bool, the Session Mode
    lines,        \* []string, the Pending Input Buffer
    scanner,      \* state of the bufio.Scanner on stdin: "open", "eof", "err"
    pc,           \* "loop" while runInteractiveMode runs, "done" once it returned
    steps,        \* number of loop steps taken (bounded by MaxSteps)
    nCalls,       \* history: number of callOpenAI invocations
    nOk,          \* history: number of callOpenAI invocations that returned nil error
    last          \* history: what the most recent step read and did

vars == <<main, messages, contextFile, isMultiline, lines, scanner, pc, steps, nCalls, nOk, last>>

\* Bound on the number of steps of the session loop explored.
MaxSteps == 4

-----------------------------------------------------------------------------
(* Command literals, main.go:25-31 *)

cmdQuit == <<":", "q">>
cmdMulti == <<":", "m", "u", "l", "t", "i">>
cmdEnd == <<":", "e", "n", "d">>
cmdRemove == <<":", "r", "e", "m", "o", "v", "e">>
cmdFile == <<":", "f", "i", "l", "e", " ">>

(* Config.SystemPrompt as loaded from config.json *)
SystemPrompt == <<"b", "e", " ", "t", "e", "r", "s", "e">>

-----------------------------------------------------------------------------
(* The environment: lines typed on stdin, file contents, replies *)

InputLines ==
    { <<":", "Q">>,
      <<":", "M", "u", "l", "t", "i">>,
      <<":", "E", "n", "d">>,
      <<":", "R", "e", "m", "o", "v", "e">>,
      <<":", "f", "i", "l", "e", " ", "a">>,
      <<":", "f", "i", "l", "e", " ", "b">>,
      <<":", "F", "i", "l", "e", " ", "a">>,
      <<"h", "i">> }

(* what main() finds at startup: whether config.json loads and its
   system_prompt, OPENAI_API_KEY, the -prompt and -interactive flags *)
SystemPrompts == { SystemPrompt, <<>> }

ApiKeys == { <<>>, <<"k">> }

Prompts == { <<>>, <<"2", "+", "2">>, <<"h", "i">>, <<":", "q">> }

Startups ==
    [configOk : BOOLEAN, systemPrompt : SystemPrompts, apiKey : ApiKeys,
     prompt : Prompts, interactive : BOOLEAN, exit : {-1}]

FileContents == { <<"x">> }

Replies == { <<"o", "k">> }

-----------------------------------------------------------------------------
(* String functions of the Go standard library used by the session *)

UpperChars == <<"A", "B", "C", "D", "E", "F", "G", "H", "I", "J", "K", "L", "M",
                "N", "O", "P", "Q", "R", "S", "T", "U", "V", "W", "X", "Y", "Z">>
LowerChars == <<"a", "b", "c", "d", "e", "f", "g", "h", "i", "j", "k", "l", "m",
                "n", "o", "p", "q", "r", "s", "t", "u", "v", "w", "x", "y", "z">>

LowerChar(c) ==
    IF \E i \in 1..Len(UpperChars) : UpperChars[i] = c
    THEN LowerChars[CHOOSE i \in 1..Len(UpperChars) : UpperChars[i] = c]
    ELSE c

ToLower(s) == [i \in 1..Len(s) |-> LowerChar(s[i])]

HasPrefix(s, p) == Len(s) >= Len(p) /\ SubSeq(s, 1, Len(p)) = p

TrimPrefix(s, p) == IF HasPrefix(s, p) THEN SubSeq(s, Len(p) + 1, Len(s)) ELSE s

RECURSIVE Join(_, _)
Join(elems, sep) ==
    IF Len(elems) = 0 THEN <<>>
    ELSE IF Len(elems) = 1 THEN elems[1]
    ELSE elems[1] \o sep \o Join(Tail(elems), sep)

-----------------------------------------------------------------------------
(* Messages *)

SystemMsg(content) == [Role |-> "system", Content |-> content]
UserMsgAsSystem(content) == [Role |-> "system", Content |-> content]
UserMsg(content) == [Role |-> "user", Content |-> content]
AssistantMsgAsUser(content) == [Role |-> "user", Content |-> content]
AssistantMsg(content) == [Role |-> "assistant", Content |-> content]

(* fmt.Sprintf("Content of %s:\n%s", fileName, content) *)
FileContextNoNewline(fileName, content) ==
    <<"C", "o", "n", "t", "e", "n", "t", " ", "o", "f", " ">> \o fileName
        \o <<":">> \o content
FileContext(fileName, content) ==
    <<"C", "o", "n", "t", "e", "n", "t", " ", "o", "f", " ">> \o fileName
        \o <<":", "\n">> \o content

(* userMessage := userInput, prefixed with "(Context: %s) " when contextFile != "" *)
UserMessageNoPrefix(ctxFile, userInput) == userInput
UserMessage(ctxFile, userInput) ==
    IF ctxFile # <<>>
    THEN <<"(", "C", "o", "n", "t", "e", "x", "t", ":", " ">> \o ctxFile
             \o <<")", " ">> \o userInput
    ELSE userInput

(* combinedInput := strings.Join(lines, "\n") *)
CombinedInputReversed(ls) == Join([i \in 1..Len(ls) |-> ls[Len(ls) + 1 - i]], <<"\n">>)
CombinedInput(ls) == Join(ls, <<"\n">>)

(* the command tests of single-line mode *)
IsQuitExact(userInput) == userInput = cmdQuit
IsQuit(userInput) == ToLower(userInput) = cmdQuit
IsMulti(userInput) == ToLower(userInput) = cmdMulti
IsFile(userInput) == HasPrefix(userInput, cmdFile)

(* the command tests of the multi-line sub-loop *)
IsCommand(line, cmd) == HasPrefix(line, <<":">>) /\ ToLower(line) = cmd

(* lines = lines[:len(lines)-1] *)
RemoveFirst(ls) == SubSeq(ls, 2, Len(ls))
RemoveLast(ls) == SubSeq(ls, 1, Len(ls) - 1)

(* messages = append(messages, m) *)
OverwriteLast(msgs, m) == [msgs EXCEPT ![Len(msgs)] = m]
AppendMessage(msgs, m) == Append(msgs, m)

(* the slice handed to callOpenAI, which sends it as Messages of the request *)
SnapshotWindow(msgs) == SubSeq(msgs, Len(msgs) - 1, Len(msgs))
Snapshot(msgs) == msgs

(* messages after callOpenAI returned: the assistant Message is appended
   unless the call failed *)
AfterCallRollback(msgs, call, reply) ==
    IF call = "fail" THEN SubSeq(msgs, 1, Len(msgs) - 1)
    ELSE Append(msgs, [Role |-> "assistant", Content |-> reply])
AfterCallPlaceholder(msgs, call, reply) ==
    Append(msgs, [Role |-> "assistant", Content |-> reply])
AfterCall(msgs, call, reply) ==
    IF call = "fail" THEN msgs ELSE AppendMessage(msgs, AssistantMsg(reply))

-----------------------------------------------------------------------------
(* Collaborators: stdin scanner, file system, remote model, renderer *)

(* scanner.Scan() and scanner.Text(): a line while stdin is open; once the
   input ended or failed Scan() returns false for good and Text() is "" *)
ScanOutcomes(s) ==
    IF s = "open"
    THEN {[ok |-> TRUE, text |-> l, state |-> "open"] : l \in InputLines}
         \cup {[ok |-> FALSE, text |-> <<>>, state |-> t] : t \in {"eof", "err"}}
    ELSE {[ok |-> FALSE, text |-> <<>>, state |-> s]}

(* readFile: the content, or an error *)
ReadFileOutcomes ==
    {[ok |-> TRUE, content |-> c] : c \in FileContents}
    \cup {[ok |-> FALSE, content |-> <<>>]}

(* callOpenAI followed by printFormattedResponse: the call fails, or it
   returns a reply that the renderer prints or fails to print *)
TurnOutcomes ==
    {[call |-> "fail", render |-> "none", reply |-> <<>>]}
    \cup {[call |-> "ok", render |-> r, reply |-> t] : r \in {"ok", "fail"}, t \in Replies}

NoTurn == [call |-> "none", render |-> "none", reply |-> <<>>]

(* history record of one step: what it read, the buffer it found, and the
   collaborators it used *)
Did(op, r, file, o, sent) ==
    [op |-> op, scanned |-> r.ok, input |-> r.text, pending |-> lines,
     file |-> file, call |-> o.call, render |-> o.render, sent |-> sent,
     notice |-> ""]

-----------------------------------------------------------------------------
NoStep ==
    [op |-> "start", scanned |-> FALSE, input |-> <<>>, pending |-> <<>>,
     file |-> "none", notice |-> "", call |-> "none", render |-> "none",
     sent |-> <<>>]

(* runInteractiveMode entered by a main() that loaded the config, found the
   credential and was given -interactive; exit is -1 while the process runs *)
Init ==
    /\ main = [configOk |-> TRUE, systemPrompt |-> SystemPrompt, apiKey |-> <<"k">>,
               prompt |-> <<>>, interactive |-> TRUE, exit |-> -1]
    /\ messages = <<SystemMsg(main.systemPrompt)>>
    /\ contextFile = <<>>
    /\ isMultiline = FALSE
    /\ lines = <<>>
    /\ scanner = "open"
    /\ pc = "loop"
    /\ steps = 0
    /\ nCalls = 0
    /\ nOk = 0
    /\ last = NoStep

Running == pc = "loop" /\ steps < MaxSteps

(* append the user Message, call the model, record the reply: main.go:155-175
   and main.go:216-236 *)
TurnWithoutUserMessage(op, r, content, o) ==
    /\ messages' = AfterCall(messages, o.call, o.reply)
    /\ nCalls' = nCalls + 1
    /\ nOk' = IF o.call = "ok" THEN nOk + 1 ELSE nOk
    /\ last' = Did(op, r, "none", o, Snapshot(messages))
Turn(op, r, content, o) ==
    LET withUser == AppendMessage(messages, UserMsg(content))
    IN /\ messages' = AfterCall(withUser, o.call, o.reply)
       /\ nCalls' = nCalls + 1
       /\ nOk' = IF o.call = "ok" THEN nOk + 1 ELSE nOk
       /\ last' = Did(op, r, "none", o, Snapshot(withUser))

(* a step that appends nothing and calls nothing *)
Quiet(op, r, file) ==
    /\ UNCHANGED <<messages, nCalls, nOk>>
    /\ last' = Did(op, r, file, NoTurn, <<>>)

(* single-line mode: ":q" *)
Quit ==
    /\ Running /\ ~isMultiline
    /\ \E r \in ScanOutcomes(scanner) :
        /\ IsQuit(r.text)
        /\ scanner' = r.state
        /\ pc' = "done"
        /\ steps' = steps + 1
        /\ Quiet("Quit", r, "none")
        /\ main' = [main EXCEPT !.exit = 0]
        /\ UNCHANGED <<contextFile, isMultiline, lines>>

(* single-line mode: ":multi" *)
EnterMultiline ==
    /\ Running /\ ~isMultiline
    /\ \E r \in ScanOutcomes(scanner) :
        /\ ~IsQuit(r.text) /\ IsMulti(r.text)
        /\ scanner' = r.state
        /\ isMultiline' = TRUE
        /\ lines' = <<>>
        /\ steps' = steps + 1
        /\ Quiet("EnterMultiline", r, "none")
        /\ UNCHANGED <<main, contextFile, pc>>

(* single-line mode: ":file <name>" *)
LoadFileContextEager ==
    /\ Running /\ ~isMultiline
    /\ \E r \in ScanOutcomes(scanner), f \in ReadFileOutcomes :
        LET fileName == TrimPrefix(r.text, cmdFile)
        IN /\ ~IsQuit(r.text) /\ ~IsMulti(r.text) /\ IsFile(r.text)
           /\ scanner' = r.state
           /\ steps' = steps + 1
           /\ contextFile' = fileName
           /\ IF f.ok
              THEN /\ messages' = AppendMessage(messages, UserMsg(FileContext(fileName, f.content)))
                   /\ last' = Did("LoadFileContext", r, "ok", NoTurn, <<>>)
                   /\ UNCHANGED <<nCalls, nOk>>
              ELSE Quiet("LoadFileContext", r, "fail")
           /\ UNCHANGED <<main, isMultiline, lines, pc>>
LoadFileContext ==
    /\ Running /\ ~isMultiline
    /\ \E r \in ScanOutcomes(scanner), f \in ReadFileOutcomes :
        LET fileName == TrimPrefix(r.text, cmdFile)
        IN /\ ~IsQuit(r.text) /\ ~IsMulti(r.text) /\ IsFile(r.text)
           /\ scanner' = r.state
           /\ steps' = steps + 1
           /\ IF f.ok
              THEN /\ contextFile' = fileName
                   /\ messages' = AppendMessage(messages, UserMsg(FileContext(fileName, f.content)))
                   /\ last' = Did("LoadFileContext", r, "ok", NoTurn, <<>>)
                   /\ UNCHANGED <<nCalls, nOk>>
              ELSE /\ Quiet("LoadFileContext", r, "fail")
                   /\ UNCHANGED contextFile
           /\ UNCHANGED <<main, isMultiline, lines, pc>>

(* single-line mode: any other input (also the "" that Text() gives when
   Scan() returned false, which the code does not test) *)
SendUserTurnStopsAtEOF ==
    /\ Running /\ ~isMultiline
    /\ \E r \in ScanOutcomes(scanner), o \in TurnOutcomes :
        /\ ~IsQuit(r.text) /\ ~IsMulti(r.text) /\ ~IsFile(r.text)
        /\ scanner' = r.state
        /\ steps' = steps + 1
        /\ IF r.ok
           THEN /\ Turn("SendUserTurn", r, UserMessage(contextFile, r.text), o)
                /\ UNCHANGED pc
           ELSE /\ Quiet("SendUserTurn", r, "none")
                /\ pc' = "done"
        /\ UNCHANGED <<main, contextFile, isMultiline, lines>>
SendUserTurn ==
    /\ Running /\ ~isMultiline
    /\ \E r \in ScanOutcomes(scanner), o \in TurnOutcomes :
        /\ ~IsQuit(r.text) /\ ~IsMulti(r.text) /\ ~IsFile(r.text)
        /\ scanner' = r.state
        /\ steps' = steps + 1
        /\ Turn("SendUserTurn", r, UserMessage(contextFile, r.text), o)
        /\ UNCHANGED <<main, contextFile, isMultiline, lines, pc>>

(* the code after the multi-line sub-loop, main.go:148-176, for the buffer ls *)
AfterCollect(op, r, ls) ==
    IF r.state = "err"
    THEN Quiet(op, r, "none")
    ELSE IF Len(ls) > 0
         THEN \E o \in TurnOutcomes : Turn(op, r, CombinedInput(ls), o)
         ELSE Quiet(op, r, "none")

(* multi-line mode: ":multi" *)
ExitMultilineKeepsLines ==
    /\ Running /\ isMultiline
    /\ \E r \in ScanOutcomes(scanner) :
        /\ r.ok /\ IsCommand(r.text, cmdMulti)
        /\ scanner' = r.state
        /\ isMultiline' = FALSE
        /\ lines' = lines
        /\ steps' = steps + 1
        /\ AfterCollect("ExitMultiline", r, lines)
        /\ UNCHANGED <<main, contextFile, pc>>
ExitMultiline ==
    /\ Running /\ isMultiline
    /\ \E r \in ScanOutcomes(scanner) :
        /\ r.ok /\ IsCommand(r.text, cmdMulti)
        /\ scanner' = r.state
        /\ isMultiline' = FALSE
        /\ lines' = <<>>
        /\ steps' = steps + 1
        /\ AfterCollect("ExitMultiline", r, <<>>)
        /\ UNCHANGED <<main, contextFile, pc>>

(* multi-line mode: ":remove" *)
RemoveLastPendingLine ==
    /\ Running /\ isMultiline
    /\ \E r \in ScanOutcomes(scanner) :
        /\ r.ok /\ ~IsCommand(r.text, cmdMulti) /\ IsCommand(r.text, cmdRemove)
        /\ scanner' = r.state
        /\ lines' = IF Len(lines) > 0 THEN RemoveLast(lines) ELSE lines
        /\ steps' = steps + 1
        /\ UNCHANGED <<messages, nCalls, nOk>>
        /\ last' = [Did("RemoveLastPendingLine", r, "none", NoTurn, <<>>)
                        EXCEPT !.notice = IF Len(lines) > 0
                                          THEN "Last line removed."
                                          ELSE "No lines to remove."]
        /\ UNCHANGED <<main, contextFile, isMultiline, pc>>

(* multi-line mode: ":end" *)
FlushMultilineExits ==
    /\ Running /\ isMultiline
    /\ \E r \in ScanOutcomes(scanner) :
        /\ r.ok /\ ~IsCommand(r.text, cmdMulti) /\ ~IsCommand(r.text, cmdRemove)
        /\ IsCommand(r.text, cmdEnd)
        /\ scanner' = r.state
        /\ steps' = steps + 1
        /\ AfterCollect("FlushMultiline", r, lines)
        /\ isMultiline' = FALSE
        /\ UNCHANGED <<main, contextFile, lines, pc>>
FlushMultiline ==
    /\ Running /\ isMultiline
    /\ \E r \in ScanOutcomes(scanner) :
        /\ r.ok /\ ~IsCommand(r.text, cmdMulti) /\ ~IsCommand(r.text, cmdRemove)
        /\ IsCommand(r.text, cmdEnd)
        /\ scanner' = r.state
        /\ steps' = steps + 1
        /\ AfterCollect("FlushMultiline", r, lines)
        /\ UNCHANGED <<main, contextFile, isMultiline, lines, pc>>

(* multi-line mode: any other line *)
AppendPendingLineLowered ==
    /\ Running /\ isMultiline
    /\ \E r \in ScanOutcomes(scanner) :
        /\ r.ok /\ ~IsCommand(r.text, cmdMulti) /\ ~IsCommand(r.text, cmdRemove)
        /\ ~IsCommand(r.text, cmdEnd)
        /\ scanner' = r.state
        /\ lines' = Append(lines, ToLower(r.text))
        /\ steps' = steps + 1
        /\ Quiet("AppendPendingLine", r, "none")
        /\ UNCHANGED <<main, contextFile, isMultiline, pc>>
AppendPendingLine ==
    /\ Running /\ isMultiline
    /\ \E r \in ScanOutcomes(scanner) :
        /\ r.ok /\ ~IsCommand(r.text, cmdMulti) /\ ~IsCommand(r.text, cmdRemove)
        /\ ~IsCommand(r.text, cmdEnd)
        /\ scanner' = r.state
        /\ lines' = Append(lines, r.text)
        /\ steps' = steps + 1
        /\ Quiet("AppendPendingLine", r, "none")
        /\ UNCHANGED <<main, contextFile, isMultiline, pc>>

(* multi-line mode: Scan() returned false, the sub-loop ends *)
CollectStopped ==
    /\ Running /\ isMultiline
    /\ \E r \in ScanOutcomes(scanner) :
        /\ ~r.ok
        /\ scanner' = r.state
        /\ steps' = steps + 1
        /\ AfterCollect("CollectStopped", r, lines)
        /\ UNCHANGED <<main, contextFile, isMultiline, lines, pc>>

Next ==
    \/ Quit
    \/ EnterMultiline
    \/ LoadFileContext
    \/ SendUserTurn
    \/ ExitMultiline
    \/ RemoveLastPendingLine
    \/ FlushMultiline
    \/ AppendPendingLine
    \/ CollectStopped

Spec == Init /\ [][Next]_vars

-----------------------------------------------------------------------------
(* main(), main.go:46-94, from process start.  pc is "main" at startup,
   "render" between callOpenAI and printFormattedResponse, "exit" once the
   process has ended, "loop" once runInteractiveMode was entered. *)

InitMain ==
    /\ main \in Startups
    /\ messages = <<>>
    /\ contextFile = <<>>
    /\ isMultiline = FALSE
    /\ lines = <<>>
    /\ scanner = "open"
    /\ pc = "main"
    /\ steps = 0
    /\ nCalls = 0
    /\ nOk = 0
    /\ last = NoStep

(* the part of the state that belongs to the interactive session only *)
SessionOnly == <<contextFile, isMultiline, lines, scanner, steps>>

Exit(op, status) ==
    /\ main' = [main EXCEPT !.exit = status]
    /\ pc' = "exit"
    /\ last' = [last EXCEPT !.op = op]

(* loadConfig failed: os.Exit(1) *)
MainConfigError ==
    /\ pc = "main"
    /\ ~main.configOk
    /\ Exit("MainConfigError", 1)
    /\ UNCHANGED <<messages, nCalls, nOk, SessionOnly>>

(* OPENAI_API_KEY is empty: os.Exit(1) *)
MainNoApiKey ==
    /\ pc = "main"
    /\ main.configOk /\ main.apiKey = <<>>
    /\ Exit("MainNoApiKey", 1)
    /\ UNCHANGED <<messages, nCalls, nOk, SessionOnly>>

(* -interactive: runInteractiveMode starts with the system Message *)
MainInteractive ==
    /\ pc = "main"
    /\ main.configOk /\ main.apiKey # <<>> /\ main.interactive
    /\ messages' = <<SystemMsg(main.systemPrompt)>>
    /\ pc' = "loop"
    /\ last' = [last EXCEPT !.op = "MainInteractive"]
    /\ UNCHANGED <<main, nCalls, nOk, SessionOnly>>

(* no -interactive and no prompt: os.Exit(1) *)
MainNoPrompt ==
    /\ pc = "main"
    /\ main.configOk /\ main.apiKey # <<>> /\ ~main.interactive
    /\ main.prompt = <<>>
    /\ Exit("MainNoPrompt", 1)
    /\ UNCHANGED <<messages, nCalls, nOk, SessionOnly>>

(* single shot: callOpenAI with the system Message and the prompt; a failed
   call is os.Exit(1) *)
MainCall ==
    /\ pc = "main"
    /\ main.configOk /\ main.apiKey # <<>> /\ ~main.interactive
    /\ main.prompt # <<>>
    /\ \E call \in {"ok", "fail"} :
        LET msgs == <<SystemMsg(main.systemPrompt), UserMsg(main.prompt)>>
        IN /\ messages' = msgs
           /\ nCalls' = nCalls + 1
           /\ nOk' = IF call = "ok" THEN nOk + 1 ELSE nOk
           /\ last' = [last EXCEPT !.op = "MainCall", !.input = main.prompt,
                                   !.call = call, !.sent = Snapshot(msgs)]
           /\ IF call = "ok"
              THEN pc' = "render" /\ UNCHANGED main
              ELSE pc' = "exit" /\ main' = [main EXCEPT !.exit = 1]
    /\ UNCHANGED SessionOnly

(* single shot: printFormattedResponse, then the end of main() or os.Exit(1) *)
MainRenderIgnoresError ==
    /\ pc = "render"
    /\ \E render \in {"ok", "fail"} :
        /\ main' = [main EXCEPT !.exit = 0]
        /\ last' = [last EXCEPT !.op = "MainRender", !.render = render]
    /\ pc' = "exit"
    /\ UNCHANGED <<messages, nCalls, nOk, SessionOnly>>
MainRender ==
    /\ pc = "render"
    /\ \E render \in {"ok", "fail"} :
        /\ main' = [main EXCEPT !.exit = IF render = "ok" THEN 0 ELSE 1]
        /\ last' = [last EXCEPT !.op = "MainRender", !.render = render]
    /\ pc' = "exit"
    /\ UNCHANGED <<messages, nCalls, nOk, SessionOnly>>

NextMain ==
    \/ MainConfigError
    \/ MainNoApiKey
    \/ MainInteractive
    \/ MainNoPrompt
    \/ MainCall
    \/ MainRender

SpecMain == InitMain /\ [][NextMain]_vars

-----------------------------------------------------------------------------
TypeOK ==
    /\ isMultiline \in BOOLEAN
    /\ pc \in {"main", "render", "exit", "loop", "done"}
    /\ main \in [configOk : BOOLEAN, systemPrompt : SystemPrompts, apiKey : ApiKeys,
                 prompt : Prompts, interactive : BOOLEAN, exit : {-1, 0, 1}]
    /\ scanner \in {"open", "eof", "err"}
    /\ steps \in 0..MaxSteps
    /\ pc \in {"loop", "done"} => Len(messages) >= 1

-----------------------------------------------------------------------------
(* Vocabulary of the properties.  A step of the session is described by the
   unprimed state before it and the primed state after it; last' tells what
   the step read and which collaborators it used. *)

IsPrefixOf(s, t) == Len(s) <= Len(t) /\ SubSeq(t, 1, Len(s)) = s

(* the Messages the step appended *)
Appended == SubSeq(messages', Len(messages) + 1, Len(messages'))

(* the step read a line whose lowercase equals cmd *)
ReadCommand(cmd) == last'.scanned /\ ToLower(last'.input) = cmd

(* the lines of a text, split at newlines *)
RECURSIVE SplitLines(_)
SplitLines(s) ==
    IF \A i \in 1..Len(s) : s[i] # "\n"
    THEN <<s>>
    ELSE LET i == CHOOSE k \in 1..Len(s) :
                      s[k] = "\n" /\ \A j \in 1..(k - 1) : s[j] # "\n"
         IN <<SubSeq(s, 1, i - 1)>> \o SplitLines(SubSeq(s, i + 1, Len(s)))

NoSideEffect ==
    /\ messages' = messages
    /\ nCalls' = nCalls
    /\ lines' = lines

-----------------------------------------------------------------------------
(* C1 as stated: reading a line whose lowercase equals ":q" ends the loop in
   single-line and in multi-line mode, with no Message appended, no remote
   call and the line not added to the buffer. *)
C1_QuitInEveryMode ==
    [][ReadCommand(cmdQuit) => (pc' = "done" /\ NoSideEffect)]_vars

(* C1 amended: in single-line mode a line whose lowercase equals ":q" ends the
   loop and appends no Message, makes no remote call and leaves buffer, mode
   and context file as they were; in multi-line mode the same line does not
   end the loop but is added verbatim to the buffer. *)
C1_QuitInSingleLineMode ==
    [][ReadCommand(cmdQuit) =>
          IF isMultiline
          THEN /\ pc' = "loop"
               /\ lines' = Append(lines, last'.input)
               /\ messages' = messages /\ nCalls' = nCalls
          ELSE /\ pc' = "done"
               /\ NoSideEffect
               /\ UNCHANGED <<contextFile, isMultiline>>]_vars

C1_Witness ==
    /\ pc = "done"
    /\ last.scanned /\ last.input = <<":", "Q">>
    /\ Len(messages) > 1

(* C2 as stated: after ":end" was processed in multi-line mode the Pending
   Input Buffer is empty, whether it was empty or not before. *)
C2_EndLeavesBufferEmpty ==
    [][(isMultiline /\ ReadCommand(cmdEnd)) => lines' = <<>>]_vars

(* C3: in multi-line mode ":end" with a non-empty buffer appends exactly one
   user Message whose content is the pending lines, in order, joined by
   newlines, without context-file prefix, and makes exactly one remote call;
   with an empty buffer it appends nothing and makes no call. *)
C3_EndFlushesJoinedLines ==
    [][(isMultiline /\ ReadCommand(cmdEnd)) =>
          /\ IsPrefixOf(messages, messages')
          /\ IF lines # <<>>
             THEN /\ nCalls' = nCalls + 1
                  /\ Len(Appended) >= 1
                  /\ Appended[1].Role = "user"
                  /\ SplitLines(Appended[1].Content) = lines
                  /\ \A i \in 2..Len(Appended) : Appended[i].Role # "user"
             ELSE /\ messages' = messages
                  /\ nCalls' = nCalls]_vars

C3_Witness ==
    /\ last.op = "FlushMultiline"
    /\ last.call = "ok"
    /\ Len(lines) = 2 /\ lines[1] # lines[2]

(* the step read, in single-line mode, a line that is no meta-command *)
PlainSingleLine ==
    /\ ~isMultiline
    /\ last'.scanned
    /\ ToLower(last'.input) # cmdQuit
    /\ ToLower(last'.input) # cmdMulti
    /\ ~IsPrefixOf(cmdFile, last'.input)

(* the step is a user turn: a plain single-line input, or ":end" on a
   non-empty buffer *)
UserTurn ==
    \/ PlainSingleLine
    \/ isMultiline /\ ReadCommand(cmdEnd) /\ lines # <<>>

(* C4 as stated: a turn that fails with a remote-call, file-read or render
   failure leaves the Transcript equal to the Transcript before the turn, and
   the loop continues. *)
C4_FailedTurnLeavesTranscript ==
    [][(last'.call = "fail" \/ last'.file = "fail" \/ last'.render = "fail") =>
          (messages' = messages /\ pc' = "loop")]_vars

(* C4 amended: after a failed file read the Transcript is the Transcript
   before the turn; after a failed remote call it is the Transcript before
   the turn plus the user Message of the turn and no assistant Message; after
   a failed render it is the Transcript before the turn plus the user Message
   and the assistant Message; in all three cases the loop continues. *)
C4_FailedTurnKeepsUserMessage ==
    [][/\ last'.file = "fail" => (messages' = messages /\ pc' = "loop")
       /\ last'.call = "fail" =>
             /\ IsPrefixOf(messages, messages')
             /\ Len(Appended) = 1
             /\ Appended[1].Role = "user"
             /\ pc' = "loop"
       /\ last'.render = "fail" =>
             /\ IsPrefixOf(messages, messages')
             /\ Len(Appended) = 2
             /\ Appended[1].Role = "user"
             /\ Appended[2].Role = "assistant"
             /\ pc' = "loop"]_vars

C4_Witness ==
    /\ last.call = "fail"
    /\ last.op = "FlushMultiline"
    /\ messages[Len(messages)].Role = "user"

(* C5: a failed remote call appends no assistant Message, leaves the mode as
   it was and the loop running; and a user turn taken after some call has
   failed still appends its user Message and issues a remote call. *)
C5_FailedCallDoesNotBlock ==
    [][/\ last'.call = "fail" =>
             /\ \A i \in 1..Len(Appended) : Appended[i].Role # "assistant"
             /\ Len(messages') >= Len(messages)
             /\ isMultiline' = isMultiline
             /\ pc' = "loop"
       /\ (nCalls > nOk /\ UserTurn) =>
             /\ Len(Appended) >= 1
             /\ Appended[1].Role = "user"
             /\ nCalls' = nCalls + 1
             /\ last'.call # "none"]_vars

C5_Witness ==
    /\ nCalls - nOk = 1
    /\ nOk >= 1
    /\ last.call = "ok"
    /\ messages[Len(messages) - 2].Role = "user"

(* C6: in single-line mode every input that is no meta-command appends
   exactly one user Message and, when its remote call succeeds, exactly one
   assistant Message directly after it; when the call fails, nothing more. *)
C6_PlainInputAppendsUserThenAssistant ==
    [][PlainSingleLine =>
          /\ IsPrefixOf(messages, messages')
          /\ last'.call \in {"ok", "fail"}
          /\ nCalls' = nCalls + 1
          /\ Len(Appended) = (IF last'.call = "ok" THEN 2 ELSE 1)
          /\ Appended[1].Role = "user"
          /\ last'.call = "ok" => Appended[2].Role = "assistant"]_vars

C6_Witness ==
    /\ last.op = "SendUserTurn" /\ last.scanned
    /\ last.call = "ok"
    /\ nOk = 2
    /\ Len(messages) = 5

(* C7: element 0 of the Transcript is the system Message with the configured
   system prompt, and no other Message of the Transcript has role system. *)
C7_SingleSystemMessageFirst ==
    /\ pc \in {"loop", "done"} => Len(messages) >= 1
    /\ messages[1] = [Role |-> "system", Content |-> SystemPrompt]
    /\ \A i \in 2..Len(messages) : messages[i].Role # "system"

C7_Witness ==
    /\ Len(messages) >= 4
    /\ \E i \in 2..Len(messages) : messages[i].Role = "assistant"
    /\ contextFile # <<>>

(* C8: the Transcript before a step is a prefix of the Transcript after it. *)
C8_TranscriptAppendOnly ==
    [][IsPrefixOf(messages, messages')]_vars

C8_Witness ==
    /\ Len(messages) >= 4
    /\ nCalls > nOk

(* C9: every remote call is given the whole Transcript of the moment of the
   call: the Transcript before the turn followed by the user Message the turn
   appended, which is what the Transcript after the turn starts with. *)
C9_CallGetsWholeTranscript ==
    [][last'.call # "none" =>
          /\ Len(last'.sent) = Len(messages) + 1
          /\ IsPrefixOf(messages, last'.sent)
          /\ IsPrefixOf(last'.sent, messages')
          /\ last'.sent[Len(last'.sent)].Role = "user"
          /\ Len(messages') - Len(last'.sent) = (IF last'.call = "ok" THEN 1 ELSE 0)]_vars

C9_Witness ==
    /\ last.call # "none"
    /\ Len(last.sent) >= 4

(* C10: in single-line mode a line with the prefix ":file " whose file is
   read appends exactly one user Message "Content of {fileName}:", newline,
   file contents, sets the Context File Reference to the line without the
   prefix, makes no remote call and appends no assistant Message. *)
C10_FileLoadAppendsContent ==
    [][(~isMultiline /\ last'.scanned /\ IsPrefixOf(cmdFile, last'.input)
            /\ last'.file = "ok") =>
          LET fileName == SubSeq(last'.input, 7, Len(last'.input))
          IN /\ IsPrefixOf(messages, messages')
             /\ Len(Appended) = 1
             /\ Appended[1].Role = "user"
             /\ \E c \in FileContents :
                    Appended[1].Content =
                        <<"C", "o", "n", "t", "e", "n", "t", " ", "o", "f", " ">>
                            \o fileName \o <<":", "\n">> \o c
             /\ contextFile' = fileName
             /\ nCalls' = nCalls
             /\ last'.call = "none"]_vars

C10_Witness ==
    /\ last.op = "LoadFileContext" /\ last.file = "ok"
    /\ contextFile = <<"a">>
    /\ messages[Len(messages)].Content =
           <<"C", "o", "n", "t", "e", "n", "t", " ", "o", "f", " ", "a", ":", "\n", "x">>

(* the step read, in single-line mode, a ":file " line whose file was read *)
FileLoaded ==
    /\ ~isMultiline
    /\ last'.scanned
    /\ IsPrefixOf(cmdFile, last'.input)
    /\ last'.file = "ok"

(* C11: the Context File Reference is empty until a ":file" command succeeds,
   changes only when one succeeds, to the name that command gave, and is never
   cleared; a plain single-line input L produces the user Message
   "(Context: {file}) L" when the reference is set and L when it is not. *)
C11_ContextFileNeverCleared ==
    [][/\ contextFile # <<>> => contextFile' # <<>>
       /\ IF FileLoaded
          THEN contextFile' = SubSeq(last'.input, 7, Len(last'.input))
          ELSE contextFile' = contextFile
       /\ PlainSingleLine =>
             /\ Len(Appended) >= 1
             /\ Appended[1].Role = "user"
             /\ Appended[1].Content =
                    IF contextFile = <<>>
                    THEN last'.input
                    ELSE <<"(", "C", "o", "n", "t", "e", "x", "t", ":", " ">>
                             \o contextFile \o <<")", " ">> \o last'.input]_vars

C11_Witness ==
    /\ contextFile = <<"b">>
    /\ last.op = "SendUserTurn" /\ last.scanned
    /\ \E i \in 2..Len(messages) :
           messages[i].Content =
               <<"C", "o", "n", "t", "e", "n", "t", " ", "o", "f", " ", "a", ":", "\n", "x">>
    /\ \E i \in 2..Len(messages) :
           messages[i] = [Role |-> "user",
                          Content |-> <<"(", "C", "o", "n", "t", "e", "x", "t", ":", " ",
                                        "b", ")", " ", "h", "i">>]

(* C12: a ":file" command whose file cannot be read changes neither the
   Transcript nor the Context File Reference (also one set by an earlier
   successful ":file") nor the mode nor the buffer, makes no remote call, and
   the loop continues. *)
C12_FailedFileLoadChangesNothing ==
    [][(~isMultiline /\ last'.scanned /\ IsPrefixOf(cmdFile, last'.input)
            /\ last'.file = "fail") =>
          /\ UNCHANGED <<messages, contextFile, isMultiline, lines, nCalls>>
          /\ last'.call = "none"
          /\ pc' = "loop"]_vars

C12_Witness ==
    /\ last.op = "LoadFileContext" /\ last.file = "fail"
    /\ last.input = <<":", "f", "i", "l", "e", " ", "b">>
    /\ contextFile = <<"a">>

(* C13: in multi-line mode a line whose lowercase equals ":multi" returns the
   session to single-line mode with an empty buffer, appends no Message and
   makes no remote call, whatever was pending; entering multi-line mode
   appends nothing either, so entering and leaving at once leaves the
   Transcript as it was. *)
C13_ExitMultilineDiscardsBuffer ==
    [][/\ (isMultiline /\ ReadCommand(cmdMulti)) =>
             /\ isMultiline' = FALSE
             /\ lines' = <<>>
             /\ messages' = messages
             /\ nCalls' = nCalls
             /\ last'.call = "none"
             /\ pc' = "loop"
       /\ (~isMultiline /\ ReadCommand(cmdMulti)) =>
             /\ isMultiline' = TRUE
             /\ messages' = messages
             /\ nCalls' = nCalls]_vars

C13_Witness ==
    /\ last.op = "ExitMultiline"
    /\ Len(last.pending) = 2
    /\ ~isMultiline
    /\ lines = <<>>

(* C14: in multi-line mode ":remove" on an empty buffer leaves the buffer
   empty and prints the no-lines-to-remove notice; on a non-empty buffer it
   removes the line added last and keeps the earlier lines in order; either
   way the mode stays multi-line, the Transcript is unchanged and no remote
   call is made. *)
C14_RemoveDropsLastLine ==
    [][(isMultiline /\ ReadCommand(cmdRemove)) =>
          /\ IF lines = <<>>
             THEN /\ lines' = <<>>
                  /\ last'.notice = "No lines to remove."
             ELSE /\ Len(lines') = Len(lines) - 1
                  /\ IsPrefixOf(lines', lines)
                  /\ last'.notice # "No lines to remove."
          /\ isMultiline' = TRUE
          /\ messages' = messages
          /\ nCalls' = nCalls
          /\ last'.call = "none"
          /\ pc' = "loop"]_vars

C14_Witness ==
    /\ last.op = "RemoveLastPendingLine"
    /\ Len(last.pending) = 2
    /\ last.pending[1] # last.pending[2]
    /\ lines = <<last.pending[1]>>

(* C15: the session ends only by reading, in single-line mode, a line whose
   lowercase equals ":q": no other line, no failure of a call, a file read or
   a render, and no failure or end of the input ends it. *)
C15_TerminatesOnlyOnQuit ==
    [][/\ (pc = "loop" /\ pc' = "done") =>
             (~isMultiline /\ last'.scanned /\ ToLower(last'.input) = cmdQuit)
       /\ (last'.call = "fail" \/ last'.file = "fail" \/ last'.render = "fail"
               \/ ~last'.scanned) => pc' = "loop"
       /\ pc = "done" => pc' = "done"]_vars

C15_Witness ==
    /\ scanner = "eof"
    /\ ~last.scanned
    /\ last.op = "SendUserTurn"
    /\ nCalls >= 2
    /\ pc = "loop"

(* a single-shot run: config and credential present, no -interactive, and a
   non-empty prompt *)
SingleShot ==
    /\ main.configOk /\ main.apiKey # <<>>
    /\ ~main.interactive /\ main.prompt # <<>>

(* C16: a single-shot run with a non-empty prompt makes exactly one remote
   call, sends exactly [system: configured system prompt, user: the prompt],
   exits with status 0 only when call and render both succeeded and with a
   non-zero status when either failed, and does not render after a failed
   call. *)
C16_SingleShotOneCall ==
    /\ nCalls <= 1
    /\ (SingleShot /\ pc = "exit") =>
          /\ nCalls = 1
          /\ last.sent = <<[Role |-> "system", Content |-> main.systemPrompt],
                           [Role |-> "user", Content |-> main.prompt]>>
          /\ main.exit \in {0, 1}
          /\ main.exit = 0 <=> (last.call = "ok" /\ last.render = "ok")
          /\ last.call = "fail" => last.render = "none"

C16_Witness ==
    /\ SingleShot /\ pc = "exit"
    /\ main.systemPrompt = SystemPrompt
    /\ last.call = "ok" /\ last.render = "fail"
    /\ main.exit = 1

(* C17: in multi-line mode a line whose lowercase is none of ":multi",
   ":remove", ":end" is appended verbatim at the end of the buffer; the mode
   stays multi-line, the Transcript is unchanged and no remote call is made.
   Lines such as ":q" and ":file a" are content there. *)
C17_OtherLinesAreBuffered ==
    [][(isMultiline /\ last'.scanned
            /\ ToLower(last'.input) \notin {cmdMulti, cmdRemove, cmdEnd}) =>
          /\ lines' = Append(lines, last'.input)
          /\ isMultiline' = TRUE
          /\ messages' = messages
          /\ contextFile' = contextFile
          /\ nCalls' = nCalls
          /\ last'.call = "none" /\ last'.file = "none"
          /\ pc' = "loop"]_vars

C17_Witness ==
    /\ last.op = "AppendPendingLine"
    /\ isMultiline
    /\ lines = << <<":", "f", "i", "l", "e", " ", "a">>, <<":", "Q">> >>
    /\ Len(messages) = 1

(* C18: the mode changes only on a line whose lowercase equals ":multi":
   read in single-line mode it makes the mode multi-line and the buffer empty,
   read in multi-line mode it makes the mode single-line; ":end" leaves the
   mode multi-line whether the buffer was empty or not and whether the call
   succeeded or failed. *)
C18_ModeChangesOnlyOnMulti ==
    [][/\ isMultiline' # isMultiline => ReadCommand(cmdMulti)
       /\ ReadCommand(cmdMulti) =>
             /\ isMultiline' = ~isMultiline
             /\ lines' = <<>>
       /\ (isMultiline /\ ReadCommand(cmdEnd)) => isMultiline' = TRUE]_vars

C18_Witness ==
    /\ last.scanned /\ last.input = <<":", "E", "n", "d">>
    /\ last.pending # <<>>
    /\ last.call = "fail"
    /\ isMultiline

(* C19 as stated: in multi-line mode a user Message is appended and a remote
   call is made only after a line whose lowercase equals ":end" was read; when
   collection stops because the input failed or ended, nothing is appended,
   nothing is called, and the loop continues. *)
C19_MultilineSendsOnlyOnEnd ==
    [][/\ (isMultiline /\ (messages' # messages \/ nCalls' # nCalls)) =>
             ReadCommand(cmdEnd)
       /\ (isMultiline /\ ~last'.scanned) =>
             /\ messages' = messages
             /\ nCalls' = nCalls
             /\ pc' = "loop"]_vars

(* C20: every assistant Message of the Transcript directly follows a user
   Message, so the Message after the system Message is never an assistant
   Message and no two assistant Messages are adjacent; and there are as many
   assistant Messages as remote calls that succeeded. *)
C20_AssistantFollowsUser ==
    /\ \A i \in 1..Len(messages) :
           messages[i].Role = "assistant" =>
               /\ i >= 3
               /\ messages[i - 1].Role = "user"
    /\ Cardinality({i \in 1..Len(messages) : messages[i].Role = "assistant"}) = nOk

C20_Witness ==
    /\ nOk = 2 /\ nCalls = 3
    /\ Len(messages) = 6
    /\ messages[2].Role = "user" /\ messages[3].Role = "user"
    /\ messages[6].Role = "assistant"

====
